---- MODULE Spec2Model ----
(***************************************************************************)
(* Model of peewee_graph_models.py: the command-line entry point and       *)
(* export_models, which imports the requested modules, walks the peewee    *)
(* models found in them and builds the dot text handed to graphviz.        *)
(*                                                                         *)
(* Text is modelled piecewise: a call of TEMPLATE.format(...) is the       *)
(* record of the values put in the template's slots, and a text            *)
(* accumulator built with += is the sequence of the pieces appended to it. *)
(* Display names are real strings, built as the code builds them.          *)
(***************************************************************************)
EXTENDS Integers, Sequences, FiniteSets, TLC

(* ------------------------------ bounds -------------------------------- *)

\* longest list of modules given to a direct call of export_models
MaxMods == 2
\* longest command-line "modules" argument, in characters
MaxArgLen == 3

(* ------------------------------ state --------------------------------- *)

VARIABLES
    from_import,           \* whether module a holds "from b import Profile"
    pc,                    \* position in the script
    err,                   \* the exception that ended the run, or "None"
    via_cli,               \* the run started from the command line
    argv_modules,          \* args.modules, as its characters
    flag,                  \* args.display_modules_name: "None" or "True"
    mods_arg,              \* export_models' mods as passed: a str or a list
    mods,                  \* mods once it is a list
    display,
    display_modules_name,
    peewee_module,
    import_log,            \* the importlib.import_module calls made so far
    mod_i,                 \* index in mods of the module being processed
    models,                \* the models of that module
    model_i,               \* index in models of the model being processed
    name,                  \* its display name
    field_i,               \* index of the next field of that model
    fields_dot,
    models_dot,
    relations_dot,
    render_calls,          \* calls of Source.render
    written                \* the output file exists

vars ==
    <<from_import, pc, err, via_cli, argv_modules, flag, mods_arg, mods, display,
      display_modules_name, peewee_module, import_log, mod_i, models, model_i,
      name, field_i, fields_dot, models_dot, relations_dot, render_calls, written>>

(* ----------------------- the importable world ------------------------- *)

\* a field object of model._meta.fields: its key, type(obj).__name__,
\* obj.primary_key, isinstance(obj, peewee.ForeignKeyField), and for a
\* foreign key obj.rel_model.__name__ and obj.rel_model.__module__
Field(n, t, pk) ==
    [name |-> n, type |-> t, primary_key |-> pk, is_fk |-> FALSE,
     rel_model |-> "None", rel_module |-> "None"]

ForeignKey(n, pk, target, target_module) ==
    [name |-> n, type |-> "ForeignKeyField", primary_key |-> pk, is_fk |-> TRUE,
     rel_model |-> target, rel_module |-> target_module]

\* a module member as inspect.getmembers sees it
ModelClass(n, m, fs) ==
    [name |-> n, isclass |-> TRUE, subclass_of_model |-> TRUE, is_base |-> FALSE,
     module |-> m, fields |-> fs]

\* peewee.Model itself, as brought in by "from peewee import Model"
BaseModel ==
    [name |-> "Model", isclass |-> TRUE, subclass_of_model |-> TRUE, is_base |-> TRUE,
     module |-> "peewee", fields |-> <<>>]

\* a module-level function
Helper ==
    [name |-> "connect", isclass |-> FALSE, subclass_of_model |-> FALSE,
     is_base |-> FALSE, module |-> "a", fields |-> <<>>]

Profile ==
    ModelClass("Profile", "b",
               <<Field("id", "AutoField", TRUE), Field("bio", "TextField", FALSE)>>)

User ==
    ModelClass("User", "a",
               <<Field("id", "AutoField", TRUE),
                 ForeignKey("profile", FALSE, "Profile", "b"),
                 Field("name", "CharField", FALSE)>>)

Link ==
    ModelClass("Link", "b",
               <<ForeignKey("src", TRUE, "Profile", "b"),
                 Field("note", "CharField", FALSE),
                 ForeignKey("parent", FALSE, "Link", "b")>>)

Order ==
    ModelClass("Order", "shop",
               <<Field("id", "AutoField", TRUE), Field("total", "DecimalField", FALSE)>>)

\* the modules importlib can find
Importable == {"a", "b", "shop"}

\* module names a direct caller may pass
ApiModules == Importable \cup {"missing"}

\* inspect.getmembers(module): every member, sorted by name. Module a reaches
\* Profile either with "import b" (Profile is no member of a) or with
\* "from b import Profile" (Profile is a member of a too).
AllMembers(mod, fi) ==
    CASE mod = "a" -> IF fi THEN <<BaseModel, Profile, User, Helper>>
                      ELSE <<BaseModel, User, Helper>>
      [] mod = "b" -> <<Link, BaseModel, Profile>>
      [] mod = "shop" -> <<BaseModel, Order>>
      [] OTHER -> <<>>

IsPeeweeModel(pyobj) ==
    pyobj.isclass /\ pyobj.subclass_of_model /\ ~pyobj.is_base

GetMembers(mod, fi) ==
    SelectSeq(AllMembers(mod, fi), IsPeeweeModel)

(* ----------------------------- constants ------------------------------ *)

DisplayChoices == {"all", "relations", "none"}

MainColor == "#0b7285"

BgColor == "#e3fafc"

(* --------------------------- pure helpers ----------------------------- *)

\* str.split(','), over a string given as its characters
RECURSIVE SplitFrom(_, _, _)
SplitFrom(s, cur, out) ==
    IF s = <<>> THEN Append(out, cur)
    ELSE IF Head(s) = "," THEN SplitFrom(Tail(s), "", Append(out, cur))
    ELSE SplitFrom(Tail(s), cur \o Head(s), out)

Split(s) == SplitFrom(s, "", <<>>)

Range(s) == {s[i] : i \in 1..Len(s)}

\* list(set(xs)): the distinct elements, in any order
ListOfSet(S) ==
    {q \in [1..Cardinality(S) -> S] : \A i, j \in 1..Cardinality(S) : q[i] = q[j] => i = j}

\* the default of --display-modules-name, by the number of modules
DModulesName_nodedup(given, modules, tokens) ==
    IF given = "None" THEN Len(tokens) > 1 ELSE TRUE

DModulesName(given, modules, tokens) ==
    IF given = "None" THEN Len(modules) > 1 ELSE TRUE

\* the name of a model in the graph
DisplayName(dmn, mod, cls_name) ==
    IF dmn THEN "\"" \o mod \o "." \o cls_name \o "\"" ELSE cls_name

\* whether the field gets a row
AddField_ignores_none(disp, obj) ==
    IF disp = "relations" THEN obj.is_fk ELSE TRUE

AddField_keeps_pk(disp, obj) ==
    disp # "none" /\ (IF disp = "relations" THEN obj.is_fk \/ obj.primary_key ELSE TRUE)

AddField(disp, obj) ==
    disp # "none" /\ (IF disp = "relations" THEN obj.is_fk ELSE TRUE)

FieldDotArgs_pk_only(obj) ==
    IF obj.primary_key THEN " Bold" ELSE ""

FieldDotArgs(obj) ==
    IF obj.primary_key \/ obj.is_fk THEN " Bold" ELSE ""

\* FIELD_TEMPLATE.format(...)
FieldDot(obj, color) ==
    [name |-> obj.name, type |-> obj.type, args |-> FieldDotArgs(obj), color |-> color]

\* fields_dot after one field
FieldsDotAfter_prepend(acc, disp, obj, color) ==
    IF AddField(disp, obj) THEN <<FieldDot(obj, color)>> \o acc ELSE acc

FieldsDotAfter(acc, disp, obj, color) ==
    IF AddField(disp, obj) THEN Append(acc, FieldDot(obj, color)) ELSE acc

\* RELATION_TEMPLATE.format(...)
RelationDot(dmn, mod, model_name, obj) ==
    [model |-> model_name,
     target_model |-> DisplayName(dmn, mod, obj.rel_model),
     field |-> obj.name]

\* relations_dot after one field
RelationsDotAfter_gated(acc, dmn, mod, model_name, obj) ==
    IF obj.is_fk /\ display # "none"
    THEN Append(acc, RelationDot(dmn, mod, model_name, obj)) ELSE acc

RelationsDotAfter(acc, dmn, mod, model_name, obj) ==
    IF obj.is_fk THEN Append(acc, RelationDot(dmn, mod, model_name, obj)) ELSE acc

\* MODEL_TEMPLATE.format(...)
ModelDot(model_name, fields, color_bg, color_main) ==
    [name |-> model_name, fields |-> fields, color_bg |-> color_bg, color_main |-> color_main]

\* the exception importlib.import_module raises for a name it cannot load
ImportError(module) ==
    CASE module = "None" -> "AttributeError"
      [] module = "" -> "ValueError: Empty module name"
      [] OTHER -> "ModuleNotFoundError"

(* ------------------------------ inputs -------------------------------- *)

ArgChars == {"a", "b", ","}

ArgStrings == UNION {[1..n -> ArgChars] : n \in 0..MaxArgLen}

ModLists == UNION {[1..n -> ApiModules] : n \in 0..MaxMods}

\* --peewee names peewee, names a module that does not exist, or is left out
PeeweeArgs == {"peewee", "nopeewee", "None"}

\* a direct caller is not held to argparse's choices
DisplayArgs == DisplayChoices \cup {"fields"}

(* ------------------------------ actions ------------------------------- *)

Init ==
    /\ from_import \in BOOLEAN
    /\ pc = "start"
    /\ err = "None"
    /\ via_cli = FALSE
    /\ argv_modules = <<>>
    /\ flag = "None"
    /\ mods_arg = [type |-> "list", value |-> <<>>]
    /\ mods = <<>>
    /\ display = "all"
    /\ display_modules_name = FALSE
    /\ peewee_module = "None"
    /\ import_log = <<>>
    /\ mod_i = 1
    /\ models = <<>>
    /\ model_i = 1
    /\ name = ""
    /\ field_i = 1
    /\ fields_dot = <<>>
    /\ models_dot = <<>>
    /\ relations_dot = <<>>
    /\ render_calls = 0
    /\ written = FALSE

Raise(e) ==
    /\ pc' = "error"
    /\ err' = e

\* the script's entry point: parse the arguments, call export_models
Main ==
    /\ pc = "start"
    /\ \E a \in ArgStrings, f \in {"None", "True"}, d \in DisplayChoices, p \in PeeweeArgs :
         \E modules \in ListOfSet(Range(Split(a))) :
            /\ argv_modules' = a
            /\ flag' = f
            /\ mods_arg' = [type |-> "list", value |-> modules]
            /\ display_modules_name' = DModulesName(f, modules, Split(a))
            /\ display' = d
            /\ peewee_module' = p
    /\ via_cli' = TRUE
    /\ pc' = "assert"
    /\ UNCHANGED <<from_import, err, mods, import_log, mod_i, models, model_i, name,
                   field_i, fields_dot, models_dot, relations_dot, render_calls, written>>

\* export_models called from other code, with a list of modules
CallWithList ==
    /\ pc = "start"
    /\ \E l \in ModLists, d \in DisplayArgs, n \in BOOLEAN, p \in PeeweeArgs \ {"None"} :
            /\ mods_arg' = [type |-> "list", value |-> l]
            /\ display_modules_name' = n
            /\ display' = d
            /\ peewee_module' = p
    /\ pc' = "assert"
    /\ UNCHANGED <<from_import, err, via_cli, argv_modules, flag, mods, import_log, mod_i,
                   models, model_i, name, field_i, fields_dot, models_dot, relations_dot,
                   render_calls, written>>

\* export_models called from other code, with one module's name
CallWithStr ==
    /\ pc = "start"
    /\ \E m \in ApiModules, d \in DisplayArgs, n \in BOOLEAN, p \in PeeweeArgs \ {"None"} :
            /\ mods_arg' = [type |-> "str", value |-> m]
            /\ display_modules_name' = n
            /\ display' = d
            /\ peewee_module' = p
    /\ pc' = "assert"
    /\ UNCHANGED <<from_import, err, via_cli, argv_modules, flag, mods, import_log, mod_i,
                   models, model_i, name, field_i, fields_dot, models_dot, relations_dot,
                   render_calls, written>>

\* assert display in [...], then mods made a list. The assert is taken as
\* executed: the interpreter runs without -O.
CheckDisplay_stripped ==
    /\ pc = "assert"
    /\ mods' = IF mods_arg.type = "str" THEN <<mods_arg.value>> ELSE mods_arg.value
    /\ pc' = "import_peewee"
    /\ UNCHANGED <<from_import, err, via_cli, argv_modules, flag, mods_arg, display,
                   display_modules_name, peewee_module, import_log, mod_i, models, model_i,
                   name, field_i, fields_dot, models_dot, relations_dot, render_calls,
                   written>>

CheckDisplay ==
    /\ pc = "assert"
    /\ IF display \in DisplayChoices
       THEN /\ mods' = IF mods_arg.type = "str" THEN <<mods_arg.value>> ELSE mods_arg.value
            /\ pc' = "import_peewee"
            /\ err' = err
       ELSE /\ Raise("AssertionError")
            /\ mods' = mods
    /\ UNCHANGED <<from_import, via_cli, argv_modules, flag, mods_arg, display,
                   display_modules_name, peewee_module, import_log, mod_i, models, model_i,
                   name, field_i, fields_dot, models_dot, relations_dot, render_calls,
                   written>>

\* peewee = importlib.import_module(peewee_module)
ImportPeewee ==
    /\ pc = "import_peewee"
    /\ import_log' = Append(import_log, peewee_module)
    /\ IF peewee_module = "peewee"
       THEN pc' = "check_empty" /\ err' = err
       ELSE Raise(ImportError(peewee_module))
    /\ UNCHANGED <<from_import, via_cli, argv_modules, flag, mods_arg, mods, display,
                   display_modules_name, peewee_module, mod_i, models, model_i, name,
                   field_i, fields_dot, models_dot, relations_dot, render_calls, written>>

\* if len(mods) == 0: raise; then the two accumulators start empty
CheckEmpty ==
    /\ pc = "check_empty"
    /\ IF Len(mods) = 0
       THEN /\ Raise("ValueError: modules cannot be empty")
            /\ UNCHANGED <<models_dot, relations_dot, mod_i>>
       ELSE /\ models_dot' = <<>>
            /\ relations_dot' = <<>>
            /\ mod_i' = 1
            /\ pc' = "for_mod"
            /\ err' = err
    /\ UNCHANGED <<from_import, via_cli, argv_modules, flag, mods_arg, mods, display,
                   display_modules_name, peewee_module, import_log, models, model_i, name,
                   field_i, fields_dot, render_calls, written>>

\* for mod in mods: import it and list its models; after the last, go render
ImportModule_swallow ==
    /\ pc = "for_mod"
    /\ IF mod_i > Len(mods)
       THEN /\ pc' = "render"
            /\ UNCHANGED <<import_log, models, model_i, mod_i>>
       ELSE /\ import_log' = Append(import_log, mods[mod_i])
            /\ IF mods[mod_i] \in Importable
               THEN /\ models' = GetMembers(mods[mod_i], from_import)
                    /\ model_i' = 1
                    /\ mod_i' = mod_i
                    /\ pc' = "for_model"
               ELSE /\ mod_i' = mod_i + 1
                    /\ pc' = "for_mod"
                    /\ UNCHANGED <<models, model_i>>
    /\ UNCHANGED <<from_import, err, via_cli, argv_modules, flag, mods_arg, mods, display,
                   display_modules_name, peewee_module, name, field_i, fields_dot,
                   models_dot, relations_dot, render_calls, written>>

ImportModule ==
    /\ pc = "for_mod"
    /\ IF mod_i > Len(mods)
       THEN /\ pc' = "render"
            /\ UNCHANGED <<err, import_log, models, model_i>>
       ELSE /\ import_log' = Append(import_log, mods[mod_i])
            /\ IF mods[mod_i] \in Importable
               THEN /\ models' = GetMembers(mods[mod_i], from_import)
                    /\ model_i' = 1
                    /\ pc' = "for_model"
                    /\ err' = err
               ELSE /\ Raise(ImportError(mods[mod_i]))
                    /\ UNCHANGED <<models, model_i>>
    /\ UNCHANGED <<from_import, via_cli, argv_modules, flag, mods_arg, mods, display,
                   display_modules_name, peewee_module, mod_i, name, field_i, fields_dot,
                   models_dot, relations_dot, render_calls, written>>

\* for name, model in models: start the model, or move to the next module
NextModel ==
    /\ pc = "for_model"
    /\ IF model_i > Len(models)
       THEN /\ mod_i' = mod_i + 1
            /\ pc' = "for_mod"
            /\ UNCHANGED <<name, fields_dot, field_i>>
       ELSE /\ fields_dot' = <<>>
            /\ name' = DisplayName(display_modules_name, mods[mod_i], models[model_i].name)
            /\ field_i' = 1
            /\ mod_i' = mod_i
            /\ pc' = "for_field"
    /\ UNCHANGED <<from_import, err, via_cli, argv_modules, flag, mods_arg, mods, display,
                   display_modules_name, peewee_module, import_log, models, model_i,
                   models_dot, relations_dot, render_calls, written>>

\* one turn of "for field, obj in model._meta.fields.items()"
ProcessField ==
    /\ pc = "for_field"
    /\ field_i <= Len(models[model_i].fields)
    /\ LET obj == models[model_i].fields[field_i] IN
         /\ fields_dot' = FieldsDotAfter(fields_dot, display, obj, MainColor)
         /\ relations_dot' = RelationsDotAfter(relations_dot, display_modules_name,
                                               mods[mod_i], name, obj)
    /\ field_i' = field_i + 1
    /\ UNCHANGED <<from_import, pc, err, via_cli, argv_modules, flag, mods_arg, mods,
                   display, display_modules_name, peewee_module, import_log, mod_i, models,
                   model_i, name, models_dot, render_calls, written>>

\* models_dot += MODEL_TEMPLATE.format(...), after the model's last field
EndModel ==
    /\ pc = "for_field"
    /\ field_i > Len(models[model_i].fields)
    /\ models_dot' = Append(models_dot, ModelDot(name, fields_dot, BgColor, MainColor))
    /\ model_i' = model_i + 1
    /\ pc' = "for_model"
    /\ UNCHANGED <<from_import, err, via_cli, argv_modules, flag, mods_arg, mods, display,
                   display_modules_name, peewee_module, import_log, mod_i, models, name,
                   field_i, fields_dot, relations_dot, render_calls, written>>

\* Source(graph_dot).render(...): writes the file, or raises
Render ==
    /\ pc = "render"
    /\ render_calls' = render_calls + 1
    /\ \/ /\ written' = TRUE
          /\ pc' = "done"
          /\ err' = err
       \/ /\ Raise("RenderError")
          /\ written' = written
    /\ UNCHANGED <<from_import, via_cli, argv_modules, flag, mods_arg, mods, display,
                   display_modules_name, peewee_module, import_log, mod_i, models, model_i,
                   name, field_i, fields_dot, models_dot, relations_dot>>

Next ==
    \/ Main
    \/ CallWithList
    \/ CallWithStr
    \/ CheckDisplay
    \/ ImportPeewee
    \/ CheckEmpty
    \/ ImportModule
    \/ NextModel
    \/ ProcessField
    \/ EndModel
    \/ Render

Spec == Init /\ [][Next]_vars

(* ------------------- what the properties speak of --------------------- *)

\* a model name as the specification writes it: "<module>.<model-name>",
\* quoted, when names are qualified, and the bare name otherwise
Qualified(q, mod, cls_name) ==
    IF q THEN "\"" \o mod \o "." \o cls_name \o "\"" ELSE cls_name

\* the models the run discovers, in order: one entry per module and model in it
RECURSIVE Discovered(_, _)
Discovered(ms, fi) ==
    IF ms = <<>> THEN <<>>
    ELSE LET found == GetMembers(Head(ms), fi) IN
         [i \in 1..Len(found) |-> [mod |-> Head(ms), cls |-> found[i]]]
             \o Discovered(Tail(ms), fi)

IsFk(f) == f.is_fk

\* the foreign-key fields of a sequence of discovered models, in declared order
RECURSIVE ForeignKeysOf(_)
ForeignKeysOf(ds) ==
    IF ds = <<>> THEN <<>>
    ELSE LET fks == SelectSeq(Head(ds).cls.fields, IsFk) IN
         [i \in 1..Len(fks) |-> [mod |-> Head(ds).mod, cls |-> Head(ds).cls, f |-> fks[i]]]
             \o ForeignKeysOf(Tail(ds))

Names(fs) == [i \in 1..Len(fs) |-> fs[i].name]

\* source and label of each edge statement
Heads(rels) == [i \in 1..Len(rels) |-> [model |-> rels[i].model, field |-> rels[i].field]]

\* the source and label one edge per foreign-key field would have
ExpectedHeads(ds, q) ==
    LET fks == ForeignKeysOf(ds) IN
    [i \in 1..Len(fks) |->
        [model |-> Qualified(q, fks[i].mod, fks[i].cls.name), field |-> fks[i].f.name]]

\* the discovered models whose node block is complete
Completed == SubSeq(Discovered(mods, from_import), 1, Len(models_dot))

\* the declared field of a model that a row shows
FieldOfRow(cls, row) == CHOOSE f \in Range(cls.fields) : f.name = row.name

RECURSIVE IsSubsequence(_, _)
IsSubsequence(a, b) ==
    IF a = <<>> THEN TRUE
    ELSE IF b = <<>> THEN FALSE
    ELSE IF Head(a) = Head(b) THEN IsSubsequence(Tail(a), Tail(b))
    ELSE IsSubsequence(a, Tail(b))

\* both loops have run to their end
LoopDone == pc \in {"render", "done"} \/ (pc = "error" /\ err = "RenderError")

\* export_models has been entered and is past its first statement
PastAssert == pc \notin {"start", "assert"}

\* the blocks built so far are those of the first models discovered
BlocksFollowDiscovery ==
    /\ Len(models_dot) <= Len(Discovered(mods, from_import))
    /\ pc = "for_field" => Len(models_dot) < Len(Discovered(mods, from_import))

(* ------------------------------ claims -------------------------------- *)

\* C1 (as the specification states it): with qualified names and several
\* modules requested, the targets' modules among them, every edge runs from the declaring model, qualified with
\* its module, to the target model qualified with the module that owns the
\* target, so that the target endpoint is the title of the target's node.
C1_TargetQualifiedByOwner ==
    LET fks == ForeignKeysOf(Discovered(mods, from_import)) IN
    (/\ LoopDone
     /\ display_modules_name
     /\ Cardinality(Range(mods)) > 1
     /\ \A i \in 1..Len(fks) : fks[i].f.rel_module \in Range(mods)) =>
        relations_dot =
            [i \in 1..Len(fks) |->
                [model |-> Qualified(TRUE, fks[i].mod, fks[i].cls.name),
                 target_model |-> Qualified(TRUE, fks[i].f.rel_module, fks[i].f.rel_model),
                 field |-> fks[i].f.name]]

\* C2 (as the specification states it), for a valid display and a loadable
\* ORM module: a run given an empty module list never
\* renders, and ends with the "modules cannot be empty" error raised before
\* any module, the ORM module included, has been imported.
C2_EmptyFailsBeforeLoading ==
    (PastAssert /\ display \in DisplayChoices /\ peewee_module = "peewee" /\ mods = <<>>) =>
        /\ render_calls = 0
        /\ pc = "error" =>
              /\ err = "ValueError: modules cannot be empty"
              /\ import_log = <<>>

\* C3: the renderer is called at most once, and only after the display check,
\* the import of the ORM module and the import and processing of every
\* requested module succeeded; a run ended by any earlier error has not called
\* it and has written no file.
C3_NoPartialOutput ==
    /\ render_calls <= 1
    /\ render_calls = 1 =>
          /\ display \in DisplayChoices
          /\ mods # <<>>
          /\ \A i \in 1..Len(mods) : mods[i] \in Importable
          /\ import_log = <<"peewee">> \o mods
          /\ Len(models_dot) = Len(Discovered(mods, from_import))
    /\ (pc = "error" /\ err # "RenderError") => (render_calls = 0 /\ ~written)
    /\ written => (pc = "done" /\ render_calls = 1)

C3_Witness ==
    /\ pc = "error"
    /\ err = "ModuleNotFoundError"
    /\ models_dot # <<>>

\* C4: whatever display is, once the loops are done there is exactly one edge
\* statement per foreign-key field of every discovered model, labelled with
\* the field's name and sourced at the declaring model's display name, and the
\* sequence of edge statements is one that display has no part in.
C4_EdgesIgnoreDisplay ==
    LoopDone =>
        LET fks == ForeignKeysOf(Discovered(mods, from_import)) IN
        /\ Heads(relations_dot)
             = ExpectedHeads(Discovered(mods, from_import), display_modules_name)
        /\ relations_dot =
             [i \in 1..Len(fks) |->
                 RelationDot(display_modules_name, fks[i].mod,
                             Qualified(display_modules_name, fks[i].mod, fks[i].cls.name),
                             fks[i].f)]

C4_Witness ==
    /\ pc = "done"
    /\ display = "none"
    /\ Len(relations_dot) = 3

\* C5: with display = none every node block has no field row, whatever the
\* model's fields, and the foreign keys of the models done so far each have
\* their edge statement.
C5_NoneHasNoRows ==
    display = "none" =>
        /\ fields_dot = <<>>
        /\ \A i \in 1..Len(models_dot) : models_dot[i].fields = <<>>
        /\ (PastAssert /\ pc # "for_field") =>
              Heads(relations_dot) = ExpectedHeads(Completed, display_modules_name)

C5_Witness ==
    /\ display = "none"
    /\ pc = "done"
    /\ \E i \in 1..Len(models_dot) :
          /\ models_dot[i].name = "Link"
          /\ models_dot[i].fields = <<>>
    /\ \E k \in 1..Len(relations_dot) : relations_dot[k].model = "Link"

\* C6: with display = relations the rows of each node block are exactly the
\* model's foreign-key fields, and the edges are those of the foreign-key
\* fields alone.
C6_RelationsRowsAreForeignKeys ==
    (display = "relations" /\ BlocksFollowDiscovery) =>
        /\ \A i \in 1..Len(models_dot) :
              Names(models_dot[i].fields)
                 = Names(SelectSeq(Completed[i].cls.fields, IsFk))
        /\ (PastAssert /\ pc # "for_field") =>
              Heads(relations_dot) = ExpectedHeads(Completed, display_modules_name)

C6_Witness ==
    /\ display = "relations"
    /\ pc = "done"
    /\ \E i \in 1..Len(models_dot) :
          /\ models_dot[i].name = "User"
          /\ Names(models_dot[i].fields) = <<"profile">>

\* C7: the rows of a node block keep the declared order of the model's
\* fields, none repeated, and with display = all they are all the fields; the
\* edge labels keep the declared order of the foreign-key fields.
C7_OrderPreserved ==
    BlocksFollowDiscovery =>
        /\ \A i \in 1..Len(models_dot) :
              /\ IsSubsequence(Names(models_dot[i].fields), Names(Completed[i].cls.fields))
              /\ display = "all" =>
                    Names(models_dot[i].fields) = Names(Completed[i].cls.fields)
        /\ pc = "for_field" =>
              IsSubsequence(Names(fields_dot),
                            Names(SubSeq(models[model_i].fields, 1, field_i - 1)))
        /\ LoopDone =>
              [k \in 1..Len(relations_dot) |-> relations_dot[k].field]
                 = [k \in 1..Len(ForeignKeysOf(Completed)) |->
                       ForeignKeysOf(Completed)[k].f.name]

C7_Witness ==
    /\ pc = "done"
    /\ display = "all"
    /\ \E i \in 1..Len(models_dot) :
          Names(models_dot[i].fields) = <<"src", "note", "parent">>

\* C8: from the command line, names are qualified iff the flag is given or
\* the comma-separated list names more than one distinct module.
C8_DefaultModulesName ==
    (via_cli /\ BlocksFollowDiscovery) =>
        LET q == flag = "True" \/ Cardinality(Range(Split(argv_modules))) > 1 IN
        /\ display_modules_name = q
        /\ \A i \in 1..Len(models_dot) :
              models_dot[i].name = Qualified(q, Completed[i].mod, Completed[i].cls.name)

C8_Witness ==
    /\ via_cli
    /\ argv_modules = <<"a", ",", "a">>
    /\ flag = "None"
    /\ \E i \in 1..Len(models_dot) : models_dot[i].name = "User"

\* C9: a field row is bold iff its field is a primary key or a foreign key;
\* so with display = relations every row is bold.
C9_BoldRule ==
    BlocksFollowDiscovery =>
        /\ \A i \in 1..Len(models_dot) : \A r \in 1..Len(models_dot[i].fields) :
              LET row == models_dot[i].fields[r]
                  f == FieldOfRow(Completed[i].cls, row) IN
              /\ (row.args = " Bold") = (f.primary_key \/ f.is_fk)
              /\ row.args \in {" Bold", ""}
              /\ display = "relations" => row.args = " Bold"
        /\ pc = "for_field" =>
              \A r \in 1..Len(fields_dot) :
                 LET f == FieldOfRow(models[model_i], fields_dot[r]) IN
                 (fields_dot[r].args = " Bold") = (f.primary_key \/ f.is_fk)

C9_Witness ==
    /\ display = "all"
    /\ mods = <<"shop">>
    /\ Len(models_dot) = 1
    /\ Len(models_dot[1].fields) = 2
    /\ models_dot[1].fields[1].name = "id"
    /\ models_dot[1].fields[1].args = " Bold"
    /\ models_dot[1].fields[2].name = "total"
    /\ models_dot[1].fields[2].args = ""

\* C10: a display value outside {all, relations, none} ends the run at the
\* first statement of export_models: nothing has been imported, no text has
\* been built and the renderer is not called, whatever the other arguments.
C10_BadDisplayRejectedFirst ==
    (display \notin DisplayChoices /\ PastAssert) =>
        /\ pc = "error"
        /\ err = "AssertionError"
        /\ import_log = <<>>
        /\ mods = <<>>
        /\ models_dot = <<>>
        /\ relations_dot = <<>>
        /\ render_calls = 0
        /\ ~written

C10_Witness ==
    /\ pc = "error"
    /\ display \notin DisplayChoices
    /\ mods_arg = [type |-> "list", value |-> <<"missing">>]
    /\ peewee_module = "nopeewee"

====
